---- MODULE Spec2Model ----
(***************************************************************************)
(* Model of turbopack/scripts/analyze_cache_effectiveness.py: the stats    *)
(* loader, the cost model of the caching layer, the ranking, the report    *)
(* printer and main's error handling.                                      *)
(*                                                                         *)
(* JSON values are tagged: JInt(n) is the integer n, JNull is null, the    *)
(* representative of a value that is present but is no integer.  A JSON    *)
(* object is a function whose DOMAIN is the set of keys it holds, so a     *)
(* missing key is a key outside the DOMAIN.  An exception that leaves a    *)
(* function is modelled by a ...Raises predicate, evaluated in the order   *)
(* in which the code evaluates.  A float quotient is kept as the exact     *)
(* pair <<numerator, denominator>>; the digits a float formatter prints    *)
(* are kept as the magnitude, the divisor and the number of decimals.      *)
(* The unit "us" stands for the microsecond sign of the source.            *)
(***************************************************************************)
EXTENDS Integers, Sequences, FiniteSets, TLC

VARIABLES argc, file, pc, tasks, results, stdout, exit_code,
          probe, probe_ns, out

vars == <<argc, file, pc, tasks, results, stdout, exit_code,
          probe, probe_ns, out>>

pipeline_vars == <<argc, file, pc, tasks, results, stdout, exit_code>>

probe_vars == <<probe, probe_ns, out>>

(***************************************************************************)
(* Bounds of the model.                                                    *)
(***************************************************************************)
MaxEntries == 2

MaxCount == 1

MaxProbeCount == 2

MaxDurationSteps == 16

(***************************************************************************)
(* Program constants.                                                      *)
(***************************************************************************)
CACHE_HIT_COST_NS == 500

EXECUTION_OVERHEAD_NS == 6000

MEASUREMENT_OVERHEAD == 750

NANOS_PER_SEC == 1000000000

(***************************************************************************)
(* JSON values.                                                            *)
(***************************************************************************)
JInt(n) == [kind |-> "int", val |-> n]

JNull == [kind |-> "null", val |-> 0]

IsInt(v) == v.kind = "int"

EmptyObject == [k \in {} |-> JNull]

\* dict.get(key, default)
Get(object, key, default) ==
    IF key \in DOMAIN object THEN object[key] ELSE default

(***************************************************************************)
(* TaskStats and its derived properties.                                   *)
(***************************************************************************)
TaskStats(name, cache_hit, cache_miss, executions, duration_ns) ==
    [name |-> name, cache_hit |-> cache_hit, cache_miss |-> cache_miss,
     executions |-> executions, duration_ns |-> duration_ns]

\* cache_hit + cache_miss raises TypeError when either is no number
total_operations_raises(task) ==
    ~IsInt(task.cache_hit) \/ ~IsInt(task.cache_miss)

total_operations(task) == task.cache_hit.val + task.cache_miss.val

\* the miss rate, returned where the hit rate is asked for
cache_hit_rate_of_misses(task) ==
    IF total_operations(task) = 0
    THEN <<0, 1>>
    ELSE <<task.cache_miss.val, total_operations(task)>>

\* the float cache_hit / total_operations as <<numerator, denominator>>;
\* 0.0 is <<0, 1>>
cache_hit_rate(task) ==
    IF total_operations(task) = 0
    THEN <<0, 1>>
    ELSE <<task.cache_hit.val, total_operations(task)>>

Max(a, b) == IF a >= b THEN a ELSE b

\* None == 0 is False, and MEASUREMENT_OVERHEAD * None raises TypeError
avg_execution_time_ns_raises(task) == ~IsInt(task.executions)

\* the average without the clamp at zero
avg_execution_time_ns_unclamped(task) ==
    IF task.executions.val = 0
    THEN 0
    ELSE (task.duration_ns - MEASUREMENT_OVERHEAD * task.executions.val)
             \div task.executions.val

\* Python's // is the floor division, as \div is
avg_execution_time_ns(task) ==
    IF task.executions.val = 0
    THEN 0
    ELSE Max(0, (task.duration_ns - MEASUREMENT_OVERHEAD * task.executions.val)
                    \div task.executions.val)

(***************************************************************************)
(* The loader.                                                             *)
(***************************************************************************)
\* the seconds dropped from the duration
parse_duration_nanos_only(duration_dict) ==
    Get(duration_dict, "nanos", JInt(0)).val

\* None * 1_000_000_000 and int + None raise TypeError
parse_duration_raises(duration_dict) ==
    \/ ~IsInt(Get(duration_dict, "secs", JInt(0)))
    \/ ~IsInt(Get(duration_dict, "nanos", JInt(0)))

parse_duration(duration_dict) ==
    Get(duration_dict, "secs", JInt(0)).val * NANOS_PER_SEC
        + Get(duration_dict, "nanos", JInt(0)).val

\* The exception one iteration of the loop of load_task_stats raises, "" for
\* none: the keys are read in the order duration, cache_hit, cache_miss,
\* executions, and the duration is parsed before cache_hit is read.
entry_error(stats) ==
    IF "duration" \notin DOMAIN stats THEN "KeyError: duration"
    ELSE IF parse_duration_raises(stats["duration"]) THEN "TypeError"
    ELSE IF "cache_hit" \notin DOMAIN stats THEN "KeyError: cache_hit"
    ELSE IF "cache_miss" \notin DOMAIN stats THEN "KeyError: cache_miss"
    ELSE IF "executions" \notin DOMAIN stats THEN "KeyError: executions"
    ELSE ""

entry_task(entry) ==
    TaskStats(entry[1], entry[2]["cache_hit"], entry[2]["cache_miss"],
              entry[2]["executions"], parse_duration(entry[2]["duration"]))

\* the first exception of the loop over data.items(), "" for none
load_error(data) ==
    IF \E i \in 1..Len(data) : entry_error(data[i][2]) # ""
    THEN LET first == CHOOSE i \in 1..Len(data) :
                          /\ entry_error(data[i][2]) # ""
                          /\ \A j \in 1..(i - 1) : entry_error(data[j][2]) = ""
         IN  entry_error(data[first][2])
    ELSE ""

load_task_stats(data) == [i \in 1..Len(data) |-> entry_task(data[i])]

(***************************************************************************)
(* The cost model.                                                         *)
(***************************************************************************)
calculate_cache_effectiveness_raises(task) ==
    \/ total_operations_raises(task)
    \/ total_operations(task) # 0 /\ avg_execution_time_ns_raises(task)

\* the cost without caching charged for the misses only
calculate_cache_effectiveness_misses_only(task) ==
    IF total_operations(task) = 0
    THEN 0
    ELSE LET cache_hit_cost == task.cache_hit.val * CACHE_HIT_COST_NS
             cache_miss_cost == task.cache_miss.val
                 * (EXECUTION_OVERHEAD_NS + avg_execution_time_ns(task))
             current_total_cost == cache_hit_cost + cache_miss_cost
             no_cache_cost == task.cache_miss.val * avg_execution_time_ns(task)
         IN  current_total_cost - no_cache_cost

\* the float 0.0 of the early return is the number 0
calculate_cache_effectiveness(task) ==
    IF total_operations(task) = 0
    THEN 0
    ELSE LET cache_hit_cost == task.cache_hit.val * CACHE_HIT_COST_NS
             cache_miss_cost == task.cache_miss.val
                 * (EXECUTION_OVERHEAD_NS + avg_execution_time_ns(task))
             current_total_cost == cache_hit_cost + cache_miss_cost
             no_cache_cost == total_operations(task) * avg_execution_time_ns(task)
             time_savings == current_total_cost - no_cache_cost
         IN  time_savings

(***************************************************************************)
(* The ranking.                                                            *)
(***************************************************************************)
\* list.sort(key, reverse=True) is stable: a pair goes behind every pair whose
\* savings are at least its own
RECURSIVE insert_descending(_, _)
insert_descending(sorted, pair) ==
    IF sorted = <<>> THEN <<pair>>
    ELSE IF Head(sorted)[2] >= pair[2]
         THEN <<Head(sorted)>> \o insert_descending(Tail(sorted), pair)
         ELSE <<pair>> \o sorted

RECURSIVE sort_descending(_, _)
sort_descending(pairs, sorted) ==
    IF pairs = <<>> THEN sorted
    ELSE sort_descending(Tail(pairs), insert_descending(sorted, Head(pairs)))

\* a pair goes behind every pair whose savings are at most its own
RECURSIVE insert_ascending(_, _)
insert_ascending(sorted, pair) ==
    IF sorted = <<>> THEN <<pair>>
    ELSE IF Head(sorted)[2] <= pair[2]
         THEN <<Head(sorted)>> \o insert_ascending(Tail(sorted), pair)
         ELSE <<pair>> \o sorted

RECURSIVE sort_ascending(_, _)
sort_ascending(pairs, sorted) ==
    IF pairs = <<>> THEN sorted
    ELSE sort_ascending(Tail(pairs), insert_ascending(sorted, Head(pairs)))

\* a pair goes in front of the pairs whose savings equal its own
RECURSIVE insert_unstable(_, _)
insert_unstable(sorted, pair) ==
    IF sorted = <<>> THEN <<pair>>
    ELSE IF Head(sorted)[2] > pair[2]
         THEN <<Head(sorted)>> \o insert_unstable(Tail(sorted), pair)
         ELSE <<pair>> \o sorted

RECURSIVE sort_unstable(_, _)
sort_unstable(pairs, sorted) ==
    IF pairs = <<>> THEN sorted
    ELSE sort_unstable(Tail(pairs), insert_unstable(sorted, Head(pairs)))

\* the sort without reverse=True
analyze_tasks_ascending(task_list) ==
    sort_ascending([i \in 1..Len(task_list) |->
                      <<task_list[i], calculate_cache_effectiveness(task_list[i])>>],
                   <<>>)

\* the sort by an unstable algorithm
analyze_tasks_unstable(task_list) ==
    sort_unstable([i \in 1..Len(task_list) |->
                     <<task_list[i], calculate_cache_effectiveness(task_list[i])>>],
                  <<>>)

analyze_tasks_raises(task_list) ==
    \E i \in 1..Len(task_list) : calculate_cache_effectiveness_raises(task_list[i])

analyze_tasks(task_list) ==
    sort_descending([i \in 1..Len(task_list) |->
                       <<task_list[i], calculate_cache_effectiveness(task_list[i])>>],
                    <<>>)

(***************************************************************************)
(* The report.                                                             *)
(***************************************************************************)
Abs(n) == IF n < 0 THEN 0 - n ELSE n

\* The text is sign, then magnitude / divisor printed with `decimals` digits
\* behind the point, then unit.
format_time(nanoseconds) ==
    LET sign == IF nanoseconds < 0 THEN "-" ELSE ""
        magnitude == Abs(nanoseconds)
    IN  IF magnitude >= 1000000000
        THEN [sign |-> sign, magnitude |-> magnitude, divisor |-> 1000000000,
              decimals |-> 2, unit |-> "s"]
        ELSE IF magnitude >= 1000000
        THEN [sign |-> sign, magnitude |-> magnitude, divisor |-> 1000000,
              decimals |-> 2, unit |-> "ms"]
        ELSE IF magnitude >= 1000
        THEN [sign |-> sign, magnitude |-> magnitude, divisor |-> 1000,
              decimals |-> 1, unit |-> "us"]
        ELSE [sign |-> sign, magnitude |-> magnitude, divisor |-> 1,
              decimals |-> 0, unit |-> "ns"]

\* the strings of a row are built in the order savings, hit rate, exec time,
\* operations, and the row is printed after all four
row_raises(task) ==
    total_operations_raises(task) \/ avg_execution_time_ns_raises(task)

row(pair) ==
    [kind |-> "row",
     savings |-> format_time(pair[2]),
     hit_rate |-> cache_hit_rate(pair[1]),
     exec_time |-> format_time(avg_execution_time_ns(pair[1])),
     operations |-> total_operations(pair[1]),
     name |-> pair[1].name]

\* the sum of all the savings, the negative ones too
RECURSIVE total_savings_signed(_)
total_savings_signed(pairs) ==
    IF pairs = <<>> THEN 0
    ELSE Head(pairs)[2] + total_savings_signed(Tail(pairs))

RECURSIVE total_savings(_)
total_savings(pairs) ==
    IF pairs = <<>> THEN 0
    ELSE (IF Head(pairs)[2] > 0 THEN Head(pairs)[2] ELSE 0)
             + total_savings(Tail(pairs))

RECURSIVE benefiting_tasks(_)
benefiting_tasks(pairs) ==
    IF pairs = <<>> THEN 0
    ELSE (IF Head(pairs)[2] > 0 THEN 1 ELSE 0) + benefiting_tasks(Tail(pairs))

Line(kind) == [kind |-> kind]

preamble == <<Line("title"), Line("blank")>>

table_head == <<Line("header"), Line("rule")>>

\* the summary with the total taken over every pair
summary_signed(pairs) ==
    <<Line("blank"),
      [kind |-> "summary", count |-> benefiting_tasks(pairs)],
      [kind |-> "total", savings |-> format_time(total_savings_signed(pairs))],
      Line("blank")>>

summary(pairs) ==
    <<Line("blank"),
      [kind |-> "summary", count |-> benefiting_tasks(pairs)],
      [kind |-> "total", savings |-> format_time(total_savings(pairs))],
      Line("blank")>>

legend ==
    <<[kind |-> "legend", item |-> "Legend"],
      [kind |-> "legend", item |-> "Savings"],
      [kind |-> "legend", item |-> "Hit Rate"],
      [kind |-> "legend", item |-> "Exec Time"],
      [kind |-> "legend", item |-> "Operations"]>>

\* the number of rows printed before a row raises, all of them if none does
rows_printed(pairs) ==
    IF \E i \in 1..Len(pairs) : row_raises(pairs[i][1])
    THEN (CHOOSE i \in 1..Len(pairs) :
              /\ row_raises(pairs[i][1])
              /\ \A j \in 1..(i - 1) : ~row_raises(pairs[j][1])) - 1
    ELSE Len(pairs)

print_analysis_raises(pairs) == rows_printed(pairs) < Len(pairs)

\* the lines print_analysis writes, up to the exception if it raises
print_analysis(pairs) ==
    IF pairs = <<>>
    THEN preamble \o <<Line("no_tasks")>>
    ELSE preamble \o table_head
         \o [i \in 1..rows_printed(pairs) |-> row(pairs[i])]
         \o (IF print_analysis_raises(pairs)
             THEN <<>>
             ELSE summary(pairs) \o legend)

(***************************************************************************)
(* The inputs: the command line and the file it names.                     *)
(***************************************************************************)
Counts == 0..MaxCount

Durations == {EmptyObject, [nanos |-> JInt(2000)]}

DurationShapes ==
    {[secs |-> JInt(1)], [secs |-> JInt(1), nanos |-> JInt(2000)],
     [secs |-> JInt(0), nanos |-> JInt(0)]}

WellFormedStats ==
    {[duration |-> d, cache_hit |-> JInt(h), cache_miss |-> JInt(m),
      executions |-> JInt(e)] :
        d \in Durations, h \in Counts, m \in Counts, e \in Counts}
    \cup {[duration |-> d, cache_hit |-> JInt(0), cache_miss |-> JInt(1),
           executions |-> JInt(1)] : d \in DurationShapes}

MalformedStats ==
    {[cache_hit |-> JInt(1), cache_miss |-> JInt(0), executions |-> JInt(0)],
     [duration |-> EmptyObject, cache_miss |-> JInt(0), executions |-> JInt(0)],
     [duration |-> EmptyObject, cache_hit |-> JInt(1), executions |-> JInt(0)],
     [duration |-> EmptyObject, cache_hit |-> JInt(1), cache_miss |-> JInt(0)],
     [duration |-> [nanos |-> JNull], cache_hit |-> JInt(1),
      cache_miss |-> JInt(0), executions |-> JInt(0)],
     [duration |-> EmptyObject, cache_hit |-> JNull, cache_miss |-> JInt(0),
      executions |-> JInt(0)],
     [duration |-> EmptyObject, cache_hit |-> JInt(1), cache_miss |-> JInt(0),
      executions |-> JNull],
     [duration |-> EmptyObject, cache_hit |-> JInt(0), cache_miss |-> JInt(0),
      executions |-> JNull]}

StatsObjects == WellFormedStats \cup MalformedStats

\* the key of the i-th entry of the top-level object
TaskName(i) == "task" \o ToString(i)

\* a top-level object is the sequence of its entries in the order of items()
ObjectFile(objects) ==
    [kind |-> "object",
     data |-> [i \in 1..Len(objects) |-> <<TaskName(i), objects[i]>>]]

OtherFile(kind) == [kind |-> kind, data |-> <<>>]

NoProbe == TaskStats("", JInt(0), JInt(0), JInt(0), 0)

NoOut == [fn |-> "", value |-> 0]

\* the file is not opened when the argument count is wrong
Init ==
    /\ \/ /\ argc = 2
          /\ \E n \in 0..MaxEntries :
                 \E objects \in [1..n -> StatsObjects] : file = ObjectFile(objects)
       \/ /\ argc = 2
          /\ \E kind \in {"absent", "invalid", "array"} : file = OtherFile(kind)
       \/ /\ argc \in {1, 3}
          /\ file = OtherFile("absent")
    /\ pc = "start"
    /\ tasks = <<>>
    /\ results = <<>>
    /\ stdout = <<>>
    /\ exit_code = 0
    /\ probe = NoProbe
    /\ probe_ns = 0
    /\ out = NoOut

(***************************************************************************)
(* main, one action for each of its stages.                                *)
(***************************************************************************)
Exit(lines, code) ==
    /\ stdout' = stdout \o lines
    /\ exit_code' = code
    /\ pc' = "exit"

CheckArgs ==
    /\ pc = "start"
    /\ IF argc # 2
       THEN Exit(<<Line("usage")>>, 1)
       ELSE pc' = "load" /\ UNCHANGED <<stdout, exit_code>>
    /\ UNCHANGED <<argc, file, tasks, results, probe_vars>>

LoadTaskStats ==
    /\ pc = "load"
    /\ IF file.kind = "absent"
       THEN Exit(<<Line("error_not_found")>>, 1) /\ UNCHANGED tasks
       ELSE IF file.kind = "invalid"
       THEN Exit(<<Line("error_parsing_json")>>, 1) /\ UNCHANGED tasks
       ELSE IF file.kind = "array"
       THEN Exit(<<[kind |-> "error", detail |-> "AttributeError"]>>, 1)
            /\ UNCHANGED tasks
       ELSE IF load_error(file.data) # ""
       THEN Exit(<<[kind |-> "error", detail |-> load_error(file.data)]>>, 1)
            /\ UNCHANGED tasks
       ELSE /\ tasks' = load_task_stats(file.data)
            /\ pc' = "analyze"
            /\ UNCHANGED <<stdout, exit_code>>
    /\ UNCHANGED <<argc, file, results, probe_vars>>

AnalyzeTasks ==
    /\ pc = "analyze"
    /\ IF analyze_tasks_raises(tasks)
       THEN Exit(<<[kind |-> "error", detail |-> "TypeError"]>>, 1)
            /\ UNCHANGED results
       ELSE /\ results' = analyze_tasks(tasks)
            /\ pc' = "print"
            /\ UNCHANGED <<stdout, exit_code>>
    /\ UNCHANGED <<argc, file, tasks, probe_vars>>

PrintAnalysis ==
    /\ pc = "print"
    /\ IF print_analysis_raises(results)
       THEN Exit(print_analysis(results)
                     \o <<[kind |-> "error", detail |-> "TypeError"]>>, 1)
       ELSE Exit(print_analysis(results), 0)
    /\ UNCHANGED <<argc, file, tasks, results, probe_vars>>

Next == CheckArgs \/ LoadTaskStats \/ AnalyzeTasks \/ PrintAnalysis

Spec == Init /\ [][Next]_vars

(***************************************************************************)
(* The pure functions, each applied to one input drawn from a bounded set. *)
(***************************************************************************)
ProbeRecords ==
    {TaskStats("probe", JInt(h), JInt(m), JInt(e), d) :
        h \in (0..MaxProbeCount) \cup {100, 1000},
        m \in (0..MaxProbeCount) \cup {10},
        e \in (0..MaxProbeCount) \cup {10},
        d \in {125 * k : k \in 0..MaxDurationSteps} \cup {100000}}

ProbeMagnitudes ==
    {0, 1, 999, 1000, 1001, 1500, 999999, 1000000, 1000001, 2500000,
     999999999, 1000000000, 2000000000}

ProbeNanos == ProbeMagnitudes \cup {0 - n : n \in ProbeMagnitudes}

ProbeInit ==
    /\ argc = 2
    /\ file = OtherFile("absent")
    /\ pc = "probe"
    /\ tasks = <<>>
    /\ results = <<>>
    /\ stdout = <<>>
    /\ exit_code = 0
    /\ \/ probe \in ProbeRecords /\ probe_ns = 0
       \/ probe = NoProbe /\ probe_ns \in ProbeNanos
    /\ out = NoOut

ReadCacheHitRate ==
    /\ out = NoOut
    /\ out' = [fn |-> "cache_hit_rate", value |-> cache_hit_rate(probe)]
    /\ UNCHANGED <<pipeline_vars, probe, probe_ns>>

ReadAvgExecutionTime ==
    /\ out = NoOut
    /\ out' = [fn |-> "avg_execution_time_ns",
               value |-> avg_execution_time_ns(probe)]
    /\ UNCHANGED <<pipeline_vars, probe, probe_ns>>

CalculateCacheEffectiveness ==
    /\ out = NoOut
    /\ out' = [fn |-> "calculate_cache_effectiveness",
               value |-> calculate_cache_effectiveness(probe)]
    /\ UNCHANGED <<pipeline_vars, probe, probe_ns>>

FormatTime ==
    /\ out = NoOut
    /\ out' = [fn |-> "format_time", value |-> format_time(probe_ns)]
    /\ UNCHANGED <<pipeline_vars, probe, probe_ns>>

ProbeNext ==
    \/ ReadCacheHitRate
    \/ ReadAvgExecutionTime
    \/ CalculateCacheEffectiveness
    \/ FormatTime

ProbeSpec == ProbeInit /\ [][ProbeNext]_vars

(***************************************************************************)
(* Properties of the pure functions, checked under ProbeSpec.              *)
(***************************************************************************)
Returned(fn) == out.fn = fn

ScenarioB == TaskStats("probe", JInt(0), JInt(10), JInt(10), 100000)

ScenarioC == TaskStats("probe", JInt(1000), JInt(1), JInt(1), 1000)

\* C1: calculate_cache_effectiveness returns
\* hits*500 + misses*(6000 + avg) - (hits + misses)*avg, and 0 for a record
\* with no operations whatever its executions and duration; scenario B gives
\* 60000 and scenario C gives 256000.
C1_TimeSavings ==
    Returned("calculate_cache_effectiveness") =>
        LET hits == probe.cache_hit.val
            misses == probe.cache_miss.val
            avg == avg_execution_time_ns(probe)
        IN  /\ out.value = hits * 500 + misses * (6000 + avg) - (hits + misses) * avg
            /\ (hits + misses = 0 => out.value = 0)
            /\ (probe = ScenarioB => out.value = 60000)
            /\ (probe = ScenarioC => out.value = 256000)

C1_Witness ==
    /\ Returned("calculate_cache_effectiveness")
    /\ probe = ScenarioC
    /\ out.value = 256000

InUnitInterval(rate) == rate[2] > 0 /\ 0 <= rate[1] /\ rate[1] <= rate[2]

\* C3 as stated: cacheHitRate lies in [0,1] and is 0 exactly when
\* totalOperations is 0.
C3_ZeroExactlyWithoutOperations ==
    Returned("cache_hit_rate") =>
        /\ InUnitInterval(out.value)
        /\ (out.value[1] = 0 <=> probe.cache_hit.val + probe.cache_miss.val = 0)

\* C3 as amended: cacheHitRate is cacheHits / (cacheHits + cacheMisses), lies
\* in [0,1], is 0 whenever totalOperations is 0, and is 0 exactly when
\* cacheHits is 0.
C3_ZeroExactlyWithoutHits ==
    Returned("cache_hit_rate") =>
        LET hits == probe.cache_hit.val
            misses == probe.cache_miss.val
        IN  /\ InUnitInterval(out.value)
            /\ (hits + misses # 0 =>
                    out.value[1] * (hits + misses) = hits * out.value[2])
            /\ (hits + misses = 0 => out.value[1] = 0)
            /\ (out.value[1] = 0 <=> hits = 0)

C3_Witness ==
    /\ Returned("cache_hit_rate")
    /\ probe.cache_hit.val = 0
    /\ probe.cache_miss.val > 0
    /\ out.value[1] = 0

\* C4: avgExecutionTimeNanos is never negative, is 0 when executions is 0,
\* is otherwise the floor of (duration - 750*executions) / executions clamped
\* at 0, so 0 whenever duration < 750*executions; executions=1, duration=1000
\* gives 250 and executions=10, duration=100000 gives 9250.
C4_AvgExecutionTime ==
    Returned("avg_execution_time_ns") =>
        LET n == probe.executions.val
            net == probe.duration_ns - 750 * n
        IN  /\ out.value >= 0
            /\ (n = 0 => out.value = 0)
            /\ (n > 0 /\ net < 0 => out.value = 0)
            /\ (n > 0 /\ net >= 0 =>
                    out.value * n <= net /\ net < (out.value + 1) * n)
            /\ (n = 1 /\ probe.duration_ns = 1000 => out.value = 250)
            /\ (n = 10 /\ probe.duration_ns = 100000 => out.value = 9250)

C4_Witness ==
    /\ Returned("avg_execution_time_ns")
    /\ probe.executions.val > 0
    /\ probe.duration_ns > 0
    /\ probe.duration_ns < 750 * probe.executions.val
    /\ out.value = 0

\* C9: format_time picks the unit from |v| (ns below 1e3, us from 1e3, ms from
\* 1e6, s from 1e9), prints the scaled magnitude with two decimals for us, ms
\* and s and none for ns, and prefixes '-' exactly when v < 0.
C9_FormatTime ==
    Returned("format_time") =>
        LET v == probe_ns
            a == IF v < 0 THEN 0 - v ELSE v
            text == out.value
        IN  /\ text.magnitude = a
            /\ (text.unit = "ns" <=> a < 1000)
            /\ (text.unit = "us" <=> 1000 <= a /\ a < 1000000)
            /\ (text.unit = "ms" <=> 1000000 <= a /\ a < 1000000000)
            /\ (text.unit = "s" <=> 1000000000 <= a)
            /\ (text.unit = "ns" => text.divisor = 1 /\ text.decimals = 0)
            /\ (text.unit = "us" => text.divisor = 1000 /\ text.decimals = 2)
            /\ (text.unit = "ms" => text.divisor = 1000000 /\ text.decimals = 2)
            /\ (text.unit = "s" => text.divisor = 1000000000 /\ text.decimals = 2)
            /\ (text.sign = "-" <=> v < 0)

(***************************************************************************)
(* Properties of a run of main, checked under Spec.                        *)
(***************************************************************************)
\* C2: the sequence analyze_tasks returns is non-increasing in the savings.
C2_RankingNonIncreasing ==
    pc = "print" =>
        \A i \in 1..(Len(results) - 1) : results[i][2] >= results[i + 1][2]

C2_Witness ==
    /\ pc = "print"
    /\ Len(results) >= 2
    /\ results[1][2] > results[2][2]
    /\ results[1][1] = tasks[2]

ErrorKinds == {"usage", "error_not_found", "error_parsing_json", "error"}

ReportComplete ==
    /\ stdout = print_analysis(results)
    /\ stdout[Len(stdout)] \in {Line("no_tasks"), legend[Len(legend)]}

\* C5: a run either prints the full report and exits 0, or exits 1 having
\* printed one error line and no report line; a wrong argument count, a
\* missing file and unparseable input each exit 1.
C5_AllOrNothing ==
    pc = "exit" =>
        /\ \/ exit_code = 0 /\ ReportComplete
           \/ /\ exit_code = 1
              /\ Len(stdout) = 1
              /\ stdout[1].kind \in ErrorKinds
        /\ (argc # 2 \/ file.kind \in {"absent", "invalid"} => exit_code = 1)

RequiredKeys == {"cache_hit", "cache_miss", "executions"}

\* C6: when an entry lacks cache_hit, cache_miss or executions, the run exits
\* 1 with the one line 'Error parsing JSON: <detail>' and no report; a
\* duration without secs or nanos is no error.
C6_MissingKeyIsMalformedInput ==
    pc = "exit" /\ argc = 2 /\ file.kind = "object" =>
        /\ (\E i \in 1..Len(file.data) : ~(RequiredKeys \subseteq DOMAIN file.data[i][2])) =>
               /\ exit_code = 1
               /\ stdout = <<Line("error_parsing_json")>>
        /\ (\A i \in 1..Len(file.data) : file.data[i][2] \in WellFormedStats) =>
               exit_code = 0

WellFormedEntry(stats) ==
    /\ DOMAIN stats = {"duration", "cache_hit", "cache_miss", "executions"}
    /\ \A key \in RequiredKeys : stats[key].kind = "int"
    /\ \A key \in DOMAIN stats["duration"] : stats["duration"][key].kind = "int"

FieldOrZero(object, key) == IF key \in DOMAIN object THEN object[key].val ELSE 0

\* C7: loading N well-formed entries yields N records in the order of the
\* entries, each with the key as name, the entry's cache_hit, cache_miss and
\* executions, and secs*1_000_000_000 + nanos as duration, a missing secs or
\* nanos counted as 0.
C7_LoadRoundTrip ==
    (/\ argc = 2
     /\ file.kind = "object"
     /\ pc \notin {"start", "load"}
     /\ \A i \in 1..Len(file.data) : WellFormedEntry(file.data[i][2])) =>
        /\ Len(tasks) = Len(file.data)
        /\ \A i \in 1..Len(file.data) :
               LET stats == file.data[i][2]
               IN  /\ tasks[i].name = file.data[i][1]
                   /\ tasks[i].cache_hit = stats["cache_hit"]
                   /\ tasks[i].cache_miss = stats["cache_miss"]
                   /\ tasks[i].executions = stats["executions"]
                   /\ tasks[i].duration_ns =
                          FieldOrZero(stats["duration"], "secs") * 1000000000
                              + FieldOrZero(stats["duration"], "nanos")

C7_Witness ==
    /\ pc = "analyze"
    /\ Len(tasks) = 2
    /\ DOMAIN file.data[1][2]["duration"] = {}
    /\ tasks[1].duration_ns = 0
    /\ DOMAIN file.data[2][2]["duration"] = {"secs", "nanos"}
    /\ tasks[2].duration_ns = 1000002000

Benefiting == {i \in 1..Len(results) : results[i][2] > 0}

RECURSIVE SavingsOver(_)
SavingsOver(indices) ==
    IF indices = {} THEN 0
    ELSE LET i == CHOOSE j \in indices : TRUE
         IN  results[i][2] + SavingsOver(indices \ {i})

\* C8: for a non-empty ranked list the summary reports the number of pairs
\* with positive savings and the sum of the savings of exactly those pairs,
\* so the total is never negative and is 0 exactly when the count is 0.
C8_Summary ==
    pc = "exit" /\ exit_code = 0 /\ results # <<>> =>
        LET count_line == stdout[Len(stdout) - 7]
            total_line == stdout[Len(stdout) - 6]
        IN  /\ count_line.kind = "summary"
            /\ count_line.count = Cardinality(Benefiting)
            /\ total_line.kind = "total"
            /\ total_line.savings = format_time(SavingsOver(Benefiting))
            /\ total_line.savings.sign = ""
            /\ (total_line.savings.magnitude = 0 <=> count_line.count = 0)

C8_Witness ==
    /\ pc = "exit"
    /\ exit_code = 0
    /\ Len(results) = 2
    /\ results[1][2] > 0
    /\ results[2][2] < 0
    /\ stdout[Len(stdout) - 7].count = 1
    /\ stdout[Len(stdout) - 6].savings.magnitude = results[1][2]

InputPosition(i) ==
    CHOOSE k \in 1..Len(tasks) : tasks[k].name = results[i][1].name

\* C10: analyze_tasks returns one pair per input record, the record unchanged
\* and the savings those of calculate_cache_effectiveness, leaves the input
\* list as loaded, and keeps records of equal savings in their input order.
C10_StablePermutation ==
    pc = "print" =>
        /\ tasks = load_task_stats(file.data)
        /\ Len(results) = Len(tasks)
        /\ \A i \in 1..Len(results) :
               /\ \E k \in 1..Len(tasks) : results[i][1] = tasks[k]
               /\ results[i][2] = calculate_cache_effectiveness(results[i][1])
        /\ \A i, j \in 1..Len(results) :
               i < j =>
                   /\ InputPosition(i) # InputPosition(j)
                   /\ (results[i][2] = results[j][2] =>
                           InputPosition(i) < InputPosition(j))

C10_Witness ==
    /\ pc = "print"
    /\ Len(results) = 2
    /\ results[1][2] = results[2][2]
    /\ results[1][1].executions # results[2][1].executions
    /\ results[1][1] = tasks[1]

====
